---- MODULE Spec2Model ----
(***************************************************************************)
(* Shadow NAV Sentinel: the PDF service (parsePDF, extractNAVData,         *)
(* extractBreakdown, validateNAVData) as a state machine.                  *)
(*                                                                         *)
(* Texts are sequences of one-character strings, so that the regular       *)
(* expressions of the service are modelled by what they match.  Numbers    *)
(* are JavaScript numbers restricted to exact rationals plus NaN and the   *)
(* two infinities: [k, n, d] with k in {"fin","nan","pinf","ninf"}.        *)
(***************************************************************************)
EXTENDS Integers, Sequences, FiniteSets, TLC

VARIABLES text, navData, validation, origin, pc,
          upload, response, isGeminiAvailable, analysis,
          status, error, requests, dropped

vars == <<text, navData, validation, origin, pc,
          upload, response, isGeminiAvailable, analysis,
          status, error, requests, dropped>>

\* The state of the App component that the server side never touches.
appVars == <<status, error, requests, dropped>>

(***************************************************************************)
(* JavaScript numbers                                                      *)
(***************************************************************************)
RECURSIVE GCD(_, _)
GCD(a, b) == IF b = 0 THEN a ELSE GCD(b, a % b)

AbsInt(x) == IF x < 0 THEN -x ELSE x

NaN == [k |-> "nan", n |-> 0, d |-> 1]
PInf == [k |-> "pinf", n |-> 0, d |-> 1]
NInf == [k |-> "ninf", n |-> 0, d |-> 1]

\* null
Null == [k |-> "null", n |-> 0, d |-> 1]

\* The finite number n/d (d > 0), in lowest terms.
Num(n, d) ==
  LET g == GCD(AbsInt(n), d)
  IN  [k |-> "fin", n |-> n \div g, d |-> d \div g]

Int2Num(i) == [k |-> "fin", n |-> i, d |-> 1]

IsFin(x) == x.k = "fin"

\* Sign of a number for division; JavaScript's +0 counts as positive.
SignOf(x) ==
  CASE x.k = "pinf" -> 1
    [] x.k = "ninf" -> -1
    [] OTHER        -> IF x.n < 0 THEN -1 ELSE 1

\* a - b
JsSub(a, b) ==
  CASE a.k = "nan" \/ b.k = "nan" -> NaN
    [] IsFin(a) /\ IsFin(b) ->
         LET g == GCD(a.d, b.d)
         IN  Num(a.n * (b.d \div g) - b.n * (a.d \div g), (a.d \div g) * b.d)
    [] IsFin(a) -> IF b.k = "pinf" THEN NInf ELSE PInf
    [] IsFin(b) -> a
    [] OTHER    -> IF a.k = b.k THEN NaN ELSE a

\* a * b for finite a, b
MulFin(a, b) ==
  LET g1 == GCD(AbsInt(a.n), b.d)
      g2 == GCD(AbsInt(b.n), a.d)
  IN  Num((a.n \div g1) * (b.n \div g2), (a.d \div g2) * (b.d \div g1))

\* a * b
JsMul(a, b) ==
  CASE a.k = "nan" \/ b.k = "nan" -> NaN
    [] IsFin(a) /\ IsFin(b) -> MulFin(a, b)
    [] (IsFin(a) /\ a.n = 0) \/ (IsFin(b) /\ b.n = 0) -> NaN
    [] OTHER -> IF SignOf(a) * SignOf(b) > 0 THEN PInf ELSE NInf

\* a / b
JsDiv(a, b) ==
  CASE a.k = "nan" \/ b.k = "nan" -> NaN
    [] ~IsFin(a) /\ ~IsFin(b) -> NaN
    [] ~IsFin(a) -> IF SignOf(a) * SignOf(b) > 0 THEN PInf ELSE NInf
    [] ~IsFin(b) -> Int2Num(0)
    [] b.n = 0 -> IF a.n = 0 THEN NaN
                  ELSE IF a.n > 0 THEN PInf ELSE NInf
    [] OTHER -> MulFin(a, [k |-> "fin",
                           n |-> IF b.n < 0 THEN -b.d ELSE b.d,
                           d |-> AbsInt(b.n)])

\* Math.abs
MathAbs(x) ==
  CASE x.k = "ninf" -> PInf
    [] x.k = "fin"  -> [x EXCEPT !.n = AbsInt(x.n)]
    [] OTHER        -> x

\* a > b; every comparison with NaN is false.
JsGt(a, b) ==
  CASE a.k = "nan" \/ b.k = "nan" -> FALSE
    [] IsFin(a) /\ IsFin(b) ->
         \* integer parts first, then the fractional remainders
         LET qa == a.n \div a.d
             qb == b.n \div b.d
             g  == GCD(a.d, b.d)
         IN  IF qa # qb THEN qa > qb
             ELSE (a.n % a.d) * (b.d \div g) > (b.n % b.d) * (a.d \div g)
    [] a.k = "pinf" -> b.k # "pinf"
    [] a.k = "ninf" -> FALSE
    [] OTHER        -> b.k = "ninf"

\* a <= b
JsLe(a, b) ==
  /\ a.k # "nan"
  /\ b.k # "nan"
  /\ ~JsGt(a, b)

\* Number.prototype.toFixed(4) of a non-negative number: the printed decimal
\* as its integer part and its four fraction digits (0..9999), rounded half
\* up; Infinity and NaN print as their names.
toFixed4(x) ==
  IF ~IsFin(x) THEN [k |-> x.k, whole |-> 0, frac |-> 0]
  ELSE
    LET q  == x.n \div x.d
        r0 == x.n % x.d
        d1 == (r0 * 10) \div x.d
        r1 == (r0 * 10) % x.d
        d2 == (r1 * 10) \div x.d
        r2 == (r1 * 10) % x.d
        d3 == (r2 * 10) \div x.d
        r3 == (r2 * 10) % x.d
        d4 == (r3 * 10) \div x.d
        r4 == (r3 * 10) % x.d
        up == IF 2 * r4 >= x.d THEN 1 ELSE 0
        f  == d1 * 1000 + d2 * 100 + d3 * 10 + d4 + up
    IN  [k |-> "fin", whole |-> q + (f \div 10000), frac |-> f % 10000]

(***************************************************************************)
(* Characters and regular-expression helpers                               *)
(***************************************************************************)
Digits == {"0", "1", "2", "3", "4", "5", "6", "7", "8", "9"}

UpperSeq == <<"A", "B", "C", "D", "E", "F", "G", "H", "I", "J", "K", "L", "M",
              "N", "O", "P", "Q", "R", "S", "T", "U", "V", "W", "X", "Y", "Z">>
LowerSeq == <<"a", "b", "c", "d", "e", "f", "g", "h", "i", "j", "k", "l", "m",
              "n", "o", "p", "q", "r", "s", "t", "u", "v", "w", "x", "y", "z">>

UpperLetters == {UpperSeq[i] : i \in DOMAIN UpperSeq}
LowerLetters == {LowerSeq[i] : i \in DOMAIN LowerSeq}
Letters == UpperLetters \cup LowerLetters

\* \s
Whitespace == {" ", "\n", "\r", "\t"}
\* \w
WordChars == Letters \cup Digits \cup {"_"}
\* [\n\r]
LineBreaks == {"\n", "\r"}
\* [\$£€]
CurrencySymbols == {"$", "£", "€"}
\* [\d,]
DigitsOrComma == Digits \cup {","}
\* [:\s]
ColonOrSpace == Whitespace \cup {":"}
\* [A-Z\s&] under the i flag
NameChars == Letters \cup Whitespace \cup {"&"}

DigitVal(c) == CHOOSE v \in 0..9 : <<"0", "1", "2", "3", "4", "5", "6", "7", "8", "9">>[v + 1] = c

\* String.prototype.toLowerCase, one character
LowerChar(c) ==
  IF c \in UpperLetters
  THEN LowerSeq[CHOOSE i \in DOMAIN UpperSeq : UpperSeq[i] = c]
  ELSE c

toLowerCase(t) == [i \in 1..Len(t) |-> LowerChar(t[i])]

InClass(t, i, S) == i >= 1 /\ i <= Len(t) /\ t[i] \in S

\* The first index >= i whose character is outside S (Len(t)+1 if none): the
\* end of a greedy S* started at i.
SkipWhile(t, i, S) ==
  IF ~InClass(t, i, S) THEN i
  ELSE CHOOSE j \in (i + 1)..(Len(t) + 1) :
         ~InClass(t, j, S) /\ \A k \in (i + 1)..(j - 1) : InClass(t, k, S)

\* The first index >= i whose character is in S (Len(t)+1 if none): the end
\* of a greedy [^S]* started at i.
SkipUntil(t, i, S) ==
  IF ~(i <= Len(t) /\ t[i] \notin S) THEN i
  ELSE CHOOSE j \in (i + 1)..(Len(t) + 1) :
         (j > Len(t) \/ t[j] \in S) /\ \A k \in (i + 1)..(j - 1) : t[k] \notin S

\* The lower-case word w occurs at index i of t, ignoring case.
WordAt(t, i, w) ==
  /\ i >= 1
  /\ i + Len(w) - 1 <= Len(t)
  /\ \A k \in 1..Len(w) : LowerChar(t[i + k - 1]) = w[k]

\* String.prototype.includes
Includes(t, w) == \E i \in 1..Len(t) : i + Len(w) - 1 <= Len(t) /\ \A k \in 1..Len(w) : t[i + k - 1] = w[k]

\* t[from .. to-1]
Slice(t, from, to) == [i \in 1..(to - from) |-> t[from + i - 1]]

\* String.prototype.trim
RECURSIVE TrimEnd(_)
TrimEnd(t) ==
  IF Len(t) > 0 /\ t[Len(t)] \in Whitespace THEN TrimEnd(SubSeq(t, 1, Len(t) - 1)) ELSE t

trim(t) ==
  LET b == SkipWhile(t, 1, Whitespace)
  IN  TrimEnd(Slice(t, b, Len(t) + 1))

\* The least element of a non-empty set of indices.
Least(S) == CHOOSE j \in S : \A k \in S : j <= k

NoMatch == [ok |-> FALSE, from |-> 0, to |-> 0, g1 |-> 0]

\* A match of a pattern: the whole match is t[from .. to-1], its capture
\* group starts at g1 and ends with the match.
Match(from, g1, to) == [ok |-> TRUE, from |-> from, to |-> to, g1 |-> g1]

(***************************************************************************)
(* extractNAVData: monetary values                                         *)
(***************************************************************************)
\* /[\$£€]?[\s]*([\d,]+\.?\d*)/ tried at index i: an optional currency
\* symbol, a greedy run of whitespace, then the captured number: a greedy run
\* of digits and commas, an optional point, a greedy run of digits.
currencyPatternAt(t, i) ==
  LET j0 == IF InClass(t, i, CurrencySymbols) THEN i + 1 ELSE i
      j1 == SkipWhile(t, j0, Whitespace)
      k1 == SkipWhile(t, j1, DigitsOrComma)
      k2 == IF InClass(t, k1, {"."}) THEN k1 + 1 ELSE k1
      k3 == SkipWhile(t, k2, Digits)
  IN  IF i <= Len(t) /\ InClass(t, j1, DigitsOrComma)
      THEN Match(i, j1, k3)
      ELSE NoMatch

\* The leftmost match of the currency pattern starting at or after index i
\* (RegExp.prototype.exec with lastIndex = i - 1, String.prototype.match).
currencyPatternFrom(t, i) ==
  LET starts == {j \in i..Len(t) : currencyPatternAt(t, j).ok}
  IN  IF starts = {} THEN NoMatch ELSE currencyPatternAt(t, Least(starts))

\* str.replace(/,/g, "")
NotComma(c) == c # ","

RemoveCommas(t) == SelectSeq(t, NotComma)

\* The value of a run of decimal digits.
RECURSIVE DigitsValue(_)
DigitsValue(t) ==
  IF t = <<>> THEN 0
  ELSE DigitsValue(SubSeq(t, 1, Len(t) - 1)) * 10 + DigitVal(t[Len(t)])

RECURSIVE Pow10(_)
Pow10(k) == IF k = 0 THEN 1 ELSE 10 * Pow10(k - 1)

\* An integer part too large for a double: 310 digits or more without a
\* leading zero are beyond Number.MAX_VALUE (about 1.8 * 10^308).
ExceedsDouble(ip) == Len(ip) >= 310 /\ ip[1] # "0"

\* parseFloat of a string made of digits and at most one point followed by
\* digits only: the longest prefix that reads as a decimal literal, NaN when
\* that prefix holds no digit, Infinity when it is too large for a double.
parseFloat(t) ==
  LET p  == SkipWhile(t, 1, Digits)
      ip == Slice(t, 1, p)
      q  == IF InClass(t, p, {"."}) THEN SkipWhile(t, p + 1, Digits) ELSE p
      fp == IF InClass(t, p, {"."}) THEN Slice(t, p + 1, q) ELSE <<>>
  IN  IF ip = <<>> /\ fp = <<>> THEN NaN
      ELSE IF ExceedsDouble(ip) THEN PInf
      ELSE Num(DigitsValue(ip) * Pow10(Len(fp)) + DigitsValue(fp), Pow10(Len(fp)))

\* Mutant: the harvest keeps every value that is a number, zero included.
RECURSIVE HarvestFrom_KeepsZero(_, _)
HarvestFrom_KeepsZero(t, i) ==
  LET m == currencyPatternFrom(t, i)
  IN  IF ~m.ok THEN <<>>
      ELSE LET value == parseFloat(RemoveCommas(Slice(t, m.g1, m.to)))
           IN  (IF value.k # "nan" THEN <<value>> ELSE <<>>)
               \o HarvestFrom_KeepsZero(t, m.to)

\* The while loop over currencyPattern.exec(text): every match is parsed and
\* kept when it is a number greater than 0.
RECURSIVE HarvestFrom(_, _)
HarvestFrom(t, i) ==
  LET m == currencyPatternFrom(t, i)
  IN  IF ~m.ok THEN <<>>
      ELSE LET value == parseFloat(RemoveCommas(Slice(t, m.g1, m.to)))
           IN  (IF value.k # "nan" /\ JsGt(value, Int2Num(0)) THEN <<value>> ELSE <<>>)
               \o HarvestFrom(t, m.to)

HarvestNumbers(t) == HarvestFrom(t, 1)

\* numbers.sort((a, b) => b - a)
RECURSIVE InsertDesc(_, _)
InsertDesc(x, sorted) ==
  IF sorted = <<>> THEN <<x>>
  ELSE IF JsGt(x, Head(sorted)) THEN <<x>> \o sorted
       ELSE <<Head(sorted)>> \o InsertDesc(x, Tail(sorted))

\* Mutant: the comparator the wrong way round, an ascending sort.
RECURSIVE InsertAsc(_, _)
InsertAsc(x, sorted) ==
  IF sorted = <<>> THEN <<x>>
  ELSE IF JsGt(Head(sorted), x) THEN <<x>> \o sorted
       ELSE <<Head(sorted)>> \o InsertAsc(x, Tail(sorted))

RECURSIVE SortDescending_Ascending(_)
SortDescending_Ascending(numbers) ==
  IF numbers = <<>> THEN <<>>
  ELSE InsertAsc(Head(numbers), SortDescending_Ascending(Tail(numbers)))

RECURSIVE SortDescending(_)
SortDescending(numbers) ==
  IF numbers = <<>> THEN <<>>
  ELSE InsertDesc(Head(numbers), SortDescending(Tail(numbers)))

\* x || dflt: the default replaces 0 and NaN
OrDefault(x, dflt) == IF x.k = "nan" \/ (IsFin(x) /\ x.n = 0) THEN dflt ELSE x

MinValues == 4

\* numbers[i], undefined (here NaN) past the end
ValueAt(numbers, i) == IF i <= Len(numbers) THEN numbers[i] ELSE NaN

\* Mutant: the fields are assigned as soon as one value was harvested, the
\* defaults standing in for the missing ones.
AssignValues_AnyValue(numbers) ==
  IF Len(numbers) >= 1
  THEN LET totalAssets == numbers[1]
           totalLiabilities == OrDefault(ValueAt(numbers, 2), Int2Num(0))
           netAssets == JsSub(totalAssets, totalLiabilities)
           unitsOutstanding == OrDefault(ValueAt(numbers, 3), Int2Num(1))
           navPerUnit == JsDiv(netAssets, unitsOutstanding)
           officialNav == OrDefault(ValueAt(numbers, 4), navPerUnit)
       IN  [totalAssets |-> totalAssets,
            totalLiabilities |-> totalLiabilities,
            netAssets |-> netAssets,
            unitsOutstanding |-> unitsOutstanding,
            navPerUnit |-> navPerUnit,
            officialNav |-> officialNav]
  ELSE <<>>

\* The fields assigned from the sorted values; none when fewer than MinValues
\* values were harvested.
AssignValues(numbers) ==
  IF Len(numbers) >= MinValues
  THEN LET totalAssets == numbers[1]
           totalLiabilities == OrDefault(numbers[2], Int2Num(0))
           netAssets == JsSub(totalAssets, totalLiabilities)
           unitsOutstanding == OrDefault(numbers[3], Int2Num(1))
           navPerUnit == JsDiv(netAssets, unitsOutstanding)
           officialNav == OrDefault(numbers[4], navPerUnit)
       IN  [totalAssets |-> totalAssets,
            totalLiabilities |-> totalLiabilities,
            netAssets |-> netAssets,
            unitsOutstanding |-> unitsOutstanding,
            navPerUnit |-> navPerUnit,
            officialNav |-> officialNav]
  ELSE <<>>

(***************************************************************************)
(* extractNAVData: fund name and date                                      *)
(***************************************************************************)
\* The leftmost index >= i at which the pattern At(t, _) matches.
FirstMatch(At(_, _), t, i) ==
  LET starts == {j \in i..Len(t) : At(t, j).ok}
  IN  IF starts = {} THEN NoMatch ELSE At(t, Least(starts))

\* The last index p in lo..hi with t[p] outside S, 0 if there is none.
RECURSIVE LastOutside(_, _, _, _)
LastOutside(t, lo, hi, S) ==
  IF hi < lo THEN 0
  ELSE IF t[hi] \notin S THEN hi ELSE LastOutside(t, lo, hi - 1, S)

\* /fund\s+name[:\s]+([^\n\r]+)/i at index i.  The greedy [:\s]+ takes its
\* whole run when a character follows it; at the end of the text it gives
\* characters back until the capture group has one that is no line break.
fundNameLabelAt(t, i) ==
  LET a  == i + 4
      b  == SkipWhile(t, a, Whitespace)
      c  == b + 4
      e  == SkipWhile(t, c, ColonOrSpace)
      g  == IF e <= Len(t) THEN e ELSE LastOutside(t, c + 1, Len(t), LineBreaks)
  IN  IF /\ WordAt(t, i, <<"f", "u", "n", "d">>)
         /\ b > a
         /\ WordAt(t, b, <<"n", "a", "m", "e">>)
         /\ e > c
         /\ g > c
      THEN Match(i, g, SkipUntil(t, g, LineBreaks))
      ELSE NoMatch

\* The last index p in lo..hi at which the word w occurs, 0 if none.
RECURSIVE LastWordAt(_, _, _, _)
LastWordAt(t, lo, hi, w) ==
  IF hi < lo THEN 0
  ELSE IF WordAt(t, hi, w) THEN hi ELSE LastWordAt(t, lo, hi - 1, w)

\* /([A-Z][A-Z\s&]+<w>)/i at index i: a letter, then the greedy run of
\* letters, whitespace and ampersands, given back up to the last occurrence
\* of the word w that leaves the run at least one character.
nameWordAt(t, i, w) ==
  LET e == SkipWhile(t, i + 1, NameChars)
      p == LastWordAt(t, i + 2, e - Len(w), w)
  IN  IF InClass(t, i, Letters) /\ p > 0
      THEN Match(i, i, p + Len(w))
      ELSE NoMatch

fundWordAt(t, i) == nameWordAt(t, i, <<"f", "u", "n", "d">>)
trustWordAt(t, i) == nameWordAt(t, i, <<"t", "r", "u", "s", "t">>)

Captured(t, m) == Slice(t, m.g1, m.to)

\* Mutant: the generic fund and trust patterns are tried before the label.
ExtractFundName_GenericFirst(t) ==
  LET m1 == FirstMatch(fundNameLabelAt, t, 1)
      m2 == FirstMatch(fundWordAt, t, 1)
      m3 == FirstMatch(trustWordAt, t, 1)
  IN  IF m2.ok THEN [fundName |-> trim(Captured(t, m2))]
      ELSE IF m3.ok THEN [fundName |-> trim(Captured(t, m3))]
      ELSE IF m1.ok THEN [fundName |-> trim(Captured(t, m1))]
      ELSE <<>>

\* The loop over fundNamePatterns: the first pattern that matches sets
\* data.fundName to its trimmed capture group.
ExtractFundName(t) ==
  LET m1 == FirstMatch(fundNameLabelAt, t, 1)
      m2 == FirstMatch(fundWordAt, t, 1)
      m3 == FirstMatch(trustWordAt, t, 1)
  IN  IF m1.ok THEN [fundName |-> trim(Captured(t, m1))]
      ELSE IF m2.ok THEN [fundName |-> trim(Captured(t, m2))]
      ELSE IF m3.ok THEN [fundName |-> trim(Captured(t, m3))]
      ELSE <<>>

\* The number of digits of the run at index i.
DigitRun(t, i) == SkipWhile(t, i, Digits) - i

\* \d{1,2} followed by the character c: the end of the digits, 0 if no match.
OneOrTwoDigitsThen(t, i, c) ==
  IF DigitRun(t, i) >= 2 /\ InClass(t, i + 2, {c}) THEN i + 2
  ELSE IF DigitRun(t, i) >= 1 /\ InClass(t, i + 1, {c}) THEN i + 1
  ELSE 0

\* /(\d{1,2}\/\d{1,2}\/\d{4})/ at index i
slashDateAt(t, i) ==
  LET a == OneOrTwoDigitsThen(t, i, "/")
      b == IF a > 0 THEN OneOrTwoDigitsThen(t, a + 1, "/") ELSE 0
  IN  IF a > 0 /\ b > 0 /\ DigitRun(t, b + 1) >= 4
      THEN Match(i, i, b + 5)
      ELSE NoMatch

\* /(\d{4}-\d{2}-\d{2})/ at index i
isoDateAt(t, i) ==
  IF /\ \A k \in {0, 1, 2, 3, 5, 6, 8, 9} : InClass(t, i + k, Digits)
     /\ InClass(t, i + 4, {"-"})
     /\ InClass(t, i + 7, {"-"})
  THEN Match(i, i, i + 10)
  ELSE NoMatch

\* /(\w+\s+\d{1,2},?\s+\d{4})/ at index i: every greedy run is taken whole,
\* since the character after a shorter run cannot start the next item.
monthDateAt(t, i) ==
  LET a == SkipWhile(t, i, WordChars)
      b == SkipWhile(t, a, Whitespace)
      n == DigitRun(t, b)
      c == b + n
      d == IF InClass(t, c, {","}) THEN c + 1 ELSE c
      e == SkipWhile(t, d, Whitespace)
  IN  IF /\ a > i
         /\ b > a
         /\ n \in {1, 2}
         /\ e > d
         /\ DigitRun(t, e) >= 4
      THEN Match(i, i, e + 4)
      ELSE NoMatch

\* The loop over datePatterns: the first pattern that matches sets data.date.
ExtractDate(t) ==
  LET m1 == FirstMatch(slashDateAt, t, 1)
      m2 == FirstMatch(isoDateAt, t, 1)
      m3 == FirstMatch(monthDateAt, t, 1)
  IN  IF m1.ok THEN [date |-> Captured(t, m1)]
      ELSE IF m2.ok THEN [date |-> Captured(t, m2)]
      ELSE IF m3.ok THEN [date |-> Captured(t, m3)]
      ELSE <<>>

(***************************************************************************)
(* extractBreakdown                                                        *)
(***************************************************************************)
\* text.split("\n")
RECURSIVE SplitLines(_, _)
SplitLines(t, i) ==
  LET e == SkipUntil(t, i, {"\n"})
  IN  IF e > Len(t) THEN << Slice(t, i, e) >>
      ELSE << Slice(t, i, e) >> \o SplitLines(t, e + 1)

sectionKeywords(type) ==
  IF type = "asset"
  THEN { <<"a", "s", "s", "e", "t", "s">>,
         <<"i", "n", "v", "e", "s", "t", "m", "e", "n", "t", "s">>,
         <<"h", "o", "l", "d", "i", "n", "g", "s">> }
  ELSE { <<"l", "i", "a", "b", "i", "l", "i", "t", "i", "e", "s">>,
         <<"e", "x", "p", "e", "n", "s", "e", "s">>,
         <<"f", "e", "e", "s">> }

IsSectionLine(line, type) ==
  \E keyword \in sectionKeywords(type) : Includes(toLowerCase(line), keyword)

IsTotalLine(line) ==
  \/ Includes(toLowerCase(line), <<"t", "o", "t", "a", "l">>)
  \/ Includes(toLowerCase(line), <<"s", "u", "m", "m", "a", "r", "y">>)

\* The entries an in-section line contributes: one when the currency pattern
\* matches it, its amount parses and the line without the first match, trimmed,
\* is not empty.
LineEntries(line) ==
  LET amountMatch == currencyPatternFrom(line, 1)
      amount == parseFloat(RemoveCommas(Captured(line, amountMatch)))
      description == trim(Slice(line, 1, amountMatch.from)
                          \o Slice(line, amountMatch.to, Len(line) + 1))
  IN  IF amountMatch.ok /\ description # <<>> /\ amount.k # "nan"
      THEN << [description |-> description, amount |-> amount] >>
      ELSE << >>

\* Mutant: an in-section line with "total" or "summary" ends the scan even
\* when it holds a section keyword.
RECURSIVE ScanLines_TotalBeforeKeyword(_, _, _, _)
ScanLines_TotalBeforeKeyword(lines, k, inSection, type) ==
  IF k > Len(lines) THEN << >>
  ELSE IF inSection /\ IsTotalLine(lines[k])
       THEN (IF IsSectionLine(lines[k], type) THEN << >> ELSE LineEntries(lines[k]))
  ELSE IF IsSectionLine(lines[k], type) THEN ScanLines_TotalBeforeKeyword(lines, k + 1, TRUE, type)
  ELSE IF ~inSection THEN ScanLines_TotalBeforeKeyword(lines, k + 1, FALSE, type)
  ELSE LineEntries(lines[k]) \o ScanLines_TotalBeforeKeyword(lines, k + 1, TRUE, type)

\* The for loop over the lines from line k on, with the inSection flag.
RECURSIVE ScanLines(_, _, _, _)
ScanLines(lines, k, inSection, type) ==
  IF k > Len(lines) THEN << >>
  ELSE IF IsSectionLine(lines[k], type) THEN ScanLines(lines, k + 1, TRUE, type)
  ELSE IF ~inSection THEN ScanLines(lines, k + 1, FALSE, type)
  ELSE LineEntries(lines[k])
       \o (IF IsTotalLine(lines[k]) THEN << >> ELSE ScanLines(lines, k + 1, TRUE, type))

\* Mutant: the scan gives up after the first entry.
extractBreakdown_FirstEntryOnly(t, type) ==
  LET breakdown == ScanLines(SplitLines(t, 1), 1, FALSE, type)
  IN  IF breakdown = << >> THEN breakdown ELSE << breakdown[1] >>

extractBreakdown(t, type) == ScanLines(SplitLines(t, 1), 1, FALSE, type)

(***************************************************************************)
(* extractNAVData and parsePDF                                             *)
(***************************************************************************)
\* The data object: only the fields that were assigned.
extractNAVData(t) ==
  ExtractFundName(t)
  @@ ExtractDate(t)
  @@ AssignValues(SortDescending(HarvestNumbers(t)))
  @@ [assetBreakdown |-> extractBreakdown(t, "asset"),
      liabilityBreakdown |-> extractBreakdown(t, "liability")]

defaultNavData ==
  [fundName |-> <<>>, date |-> <<>>,
   totalAssets |-> Int2Num(0), totalLiabilities |-> Int2Num(0),
   netAssets |-> Int2Num(0), unitsOutstanding |-> Int2Num(0),
   navPerUnit |-> Int2Num(0), officialNav |-> Int2Num(0),
   assetBreakdown |-> <<>>, liabilityBreakdown |-> <<>>,
   rawText |-> <<>>, confidence |-> 0]

\* Mutant: the extracted fields are returned without the default record under
\* them.
ExtractInto_NoDefaults(t) == extractNAVData(t) @@ [rawText |-> t]

\* navData.rawText = text; Object.assign(navData, extractNAVData(text))
ExtractInto(t) == extractNAVData(t) @@ [defaultNavData EXCEPT !.rawText = t]

mockText ==
  <<"\n">> \o
  <<" ", " ", " ", " ", "F", "U", "N", "D", " ", "N", "A", "M", "E", ":", " ", "T", "e", "s", "t", " ", "I", "n", "v", "e", "s", "t", "m", "e", "n", "t", " ", "F", "u", "n", "d", "\n">> \o
  <<" ", " ", " ", " ", "D", "A", "T", "E", ":", " ", "2", "0", "2", "4", "-", "0", "1", "-", "1", "5", "\n">> \o
  <<" ", " ", " ", " ", "T", "O", "T", "A", "L", " ", "A", "S", "S", "E", "T", "S", ":", " ", "$", "1", ",", "2", "5", "0", ",", "0", "0", "0", ".", "0", "0", "\n">> \o
  <<" ", " ", " ", " ", "T", "O", "T", "A", "L", " ", "L", "I", "A", "B", "I", "L", "I", "T", "I", "E", "S", ":", " ", "$", "5", "0", ",", "0", "0", "0", ".", "0", "0", "\n">> \o
  <<" ", " ", " ", " ", "N", "E", "T", " ", "A", "S", "S", "E", "T", "S", ":", " ", "$", "1", ",", "2", "0", "0", ",", "0", "0", "0", ".", "0", "0", "\n">> \o
  <<" ", " ", " ", " ", "U", "N", "I", "T", "S", " ", "O", "U", "T", "S", "T", "A", "N", "D", "I", "N", "G", ":", " ", "1", "0", ",", "0", "0", "0", "\n">> \o
  <<" ", " ", " ", " ", "N", "A", "V", " ", "P", "E", "R", " ", "U", "N", "I", "T", ":", " ", "$", "1", "2", "0", ".", "0", "0", "\n">> \o
  <<" ", " ", " ", " ", "O", "F", "F", "I", "C", "I", "A", "L", " ", "N", "A", "V", ":", " ", "$", "1", "2", "0", ".", "0", "0", "\n">> \o
  <<" ", " ", " ", " ", "\n">> \o
  <<" ", " ", " ", " ", "A", "S", "S", "E", "T", " ", "B", "R", "E", "A", "K", "D", "O", "W", "N", ":", "\n">> \o
  <<" ", " ", " ", " ", "-", " ", "C", "a", "s", "h", " ", "a", "n", "d", " ", "E", "q", "u", "i", "v", "a", "l", "e", "n", "t", "s", ":", " ", "$", "2", "0", "0", ",", "0", "0", "0", ".", "0", "0", "\n">> \o
  <<" ", " ", " ", " ", "-", " ", "F", "i", "x", "e", "d", " ", "I", "n", "c", "o", "m", "e", " ", "S", "e", "c", "u", "r", "i", "t", "i", "e", "s", ":", " ", "$", "5", "0", "0", ",", "0", "0", "0", ".", "0", "0", "\n">> \o
  <<" ", " ", " ", " ", "-", " ", "E", "q", "u", "i", "t", "y", " ", "S", "e", "c", "u", "r", "i", "t", "i", "e", "s", ":", " ", "$", "5", "5", "0", ",", "0", "0", "0", ".", "0", "0", "\n">> \o
  <<" ", " ", " ", " ", "\n">> \o
  <<" ", " ", " ", " ", "L", "I", "A", "B", "I", "L", "I", "T", "Y", " ", "B", "R", "E", "A", "K", "D", "O", "W", "N", ":", "\n">> \o
  <<" ", " ", " ", " ", "-", " ", "M", "a", "n", "a", "g", "e", "m", "e", "n", "t", " ", "F", "e", "e", "s", ":", " ", "$", "3", "0", ",", "0", "0", "0", ".", "0", "0", "\n">> \o
  <<" ", " ", " ", " ", "-", " ", "A", "d", "m", "i", "n", "i", "s", "t", "r", "a", "t", "i", "v", "e", " ", "E", "x", "p", "e", "n", "s", "e", "s", ":", " ", "$", "2", "0", ",", "0", "0", "0", ".", "0", "0", "\n">> \o
  <<" ", " ", " ", " ">>

\* parsePDF reads no file: it extracts from its built-in sample text.
parsePDF == ExtractInto(mockText)

(***************************************************************************)
(* validateNAVData                                                         *)
(***************************************************************************)
\* The 0.01% tolerance of the consistency check.
Tolerance == Num(1, 100)

ErrFundName == "Fund name not found"
ErrDate == "Date not found"
ErrTotalAssets == "Total assets must be greater than 0"
ErrUnits == "Units outstanding must be greater than 0"

Max(a, b) == IF a >= b THEN a ELSE b

\* errors.push(msg) when cond holds
PushIf(cond, seq, msg) == IF cond THEN Append(seq, msg) ELSE seq

\* Mutant: zero units pass the check (< 0 instead of <= 0).
RequiredFieldErrors_ZeroUnitsPass(nd) ==
  LET e1 == PushIf(nd.fundName = <<>>, <<>>, ErrFundName)
      e2 == PushIf(nd.date = <<>>, e1, ErrDate)
      e3 == PushIf(JsLe(nd.totalAssets, Int2Num(0)), e2, ErrTotalAssets)
      e4 == PushIf(JsGt(Int2Num(0), nd.unitsOutstanding), e3, ErrUnits)
  IN  e4

\* Mutant: a fifth and a sixth required-field check, on the two NAV figures.
RequiredFieldErrors_SixChecks(nd) ==
  LET e1 == PushIf(nd.fundName = <<>>, <<>>, ErrFundName)
      e2 == PushIf(nd.date = <<>>, e1, ErrDate)
      e3 == PushIf(JsLe(nd.totalAssets, Int2Num(0)), e2, ErrTotalAssets)
      e4 == PushIf(JsLe(nd.unitsOutstanding, Int2Num(0)), e3, ErrUnits)
      e5 == PushIf(JsLe(nd.navPerUnit, Int2Num(0)), e4, "NAV per unit must be greater than 0")
      e6 == PushIf(JsLe(nd.officialNav, Int2Num(0)), e5, "Official NAV must be greater than 0")
  IN  e6

RequiredFieldErrors(nd) ==
  LET e1 == PushIf(nd.fundName = <<>>, <<>>, ErrFundName)
      e2 == PushIf(nd.date = <<>>, e1, ErrDate)
      e3 == PushIf(JsLe(nd.totalAssets, Int2Num(0)), e2, ErrTotalAssets)
      e4 == PushIf(JsLe(nd.unitsOutstanding, Int2Num(0)), e3, ErrUnits)
  IN  e4

\* Mutant: the difference is left as a fraction, not scaled to a percentage.
navPercentageOf_Fraction(nd) ==
  LET calculatedNav == JsDiv(nd.netAssets, nd.unitsOutstanding)
      navDifference == MathAbs(JsSub(calculatedNav, nd.officialNav))
  IN  JsDiv(navDifference, nd.officialNav)

navPercentageOf(nd) ==
  LET calculatedNav == JsDiv(nd.netAssets, nd.unitsOutstanding)
      navDifference == MathAbs(JsSub(calculatedNav, nd.officialNav))
  IN  JsMul(JsDiv(navDifference, nd.officialNav), Int2Num(100))

\* Mutant: the tolerance itself is flagged (>= instead of >).
ConsistencyWarnings_AtTolerance(nd) ==
  LET navPercentage == navPercentageOf(nd)
  IN  IF JsGt(navPercentage, Tolerance) \/ navPercentage = Tolerance
      THEN << [msg |-> "NAV calculation discrepancy", pct |-> toFixed4(navPercentage)] >>
      ELSE << >>

\* Mutant: the test is written !(navPercentage <= 0.01), which NaN passes.
ConsistencyWarnings_NaNFlagged(nd) ==
  LET navPercentage == navPercentageOf(nd)
  IN  IF ~JsLe(navPercentage, Tolerance)
      THEN << [msg |-> "NAV calculation discrepancy", pct |-> toFixed4(navPercentage)] >>
      ELSE << >>

ConsistencyWarnings(nd) ==
  LET navPercentage == navPercentageOf(nd)
  IN  IF JsGt(navPercentage, Tolerance)
      THEN << [msg |-> "NAV calculation discrepancy", pct |-> toFixed4(navPercentage)] >>
      ELSE << >>

\* Mutant: a warning costs as much as an error.
ConfidenceOf_FlatPenalty(errors, warnings) ==
  Max(0, 100 - (Len(errors) * 20) - (Len(warnings) * 20))

ConfidenceOf(errors, warnings) ==
  Max(0, 100 - (Len(errors) * 20) - (Len(warnings) * 5))

\* Mutant: a warning makes the record invalid.
validateNAVData_WarningsInvalidate(nd) ==
  LET errors == RequiredFieldErrors(nd)
      warnings == ConsistencyWarnings(nd)
  IN  [isValid |-> Len(errors) = 0 /\ Len(warnings) = 0,
       errors |-> errors,
       warnings |-> warnings,
       confidence |-> ConfidenceOf(errors, warnings)]

validateNAVData(nd) ==
  LET errors == RequiredFieldErrors(nd)
      warnings == ConsistencyWarnings(nd)
  IN  [isValid |-> Len(errors) = 0,
       errors |-> errors,
       warnings |-> warnings,
       confidence |-> ConfidenceOf(errors, warnings)]

(***************************************************************************)
(* Records handed to validateNAVData by a caller                           *)
(***************************************************************************)
NoValidation == [isValid |-> FALSE, errors |-> <<>>, warnings |-> <<>>, confidence |-> -1]

SomeName == <<"A", "c", "m", "e">>
SomeDate == <<"2", "0", "2", "4", "-", "0", "1", "-", "1", "5">>

RecordSpace ==
  { [defaultNavData EXCEPT
       !.fundName = fn, !.date = dt,
       !.totalAssets = Int2Num(ta), !.totalLiabilities = Int2Num(tl),
       !.netAssets = Int2Num(na), !.unitsOutstanding = Int2Num(uo),
       !.navPerUnit = Int2Num(np), !.officialNav = on] :
      fn \in {<<>>, SomeName}, dt \in {<<>>, SomeDate},
      ta \in {-1, 0, 1250000}, tl \in {0, 50000},
      na \in {0, 10001, 10002, 1200000}, uo \in {-1, 0, 1, 10000},
      np \in {0, 120},
      on \in {Int2Num(0), Int2Num(120), Num(241, 2), Int2Num(10000)} }

(***************************************************************************)
(* The texts handed to extractNAVData: up to MaxFrags pieces of a document *)
(***************************************************************************)
MaxFrags == 4

Fragments ==
  << <<"$", "1", ",", "2", "5", "0", ",", "0", "0", "0", ".", "0", "0", " ">>,
     <<"5", "0", ",", "0", "0", "0", " ">>,
     <<"1", "0", ",", "0", "0", "0", " ">>,
     <<"1", "2", "0", " ">>,
     <<"F", "u", "n", "d", " ", "N", "a", "m", "e", ":", " ", "A", "c", "m", "e", "\n">>,
     <<"2", "0", "2", "4", "-", "0", "1", "-", "1", "5", " ">>,
     <<"0", ".", "0", "0", " ">> >>

RECURSIVE Concat(_)
Concat(pieces) ==
  IF pieces = <<>> THEN <<>> ELSE Head(pieces) \o Concat(Tail(pieces))

TextSpace ==
  { Concat([i \in DOMAIN f |-> Fragments[f[i]]]) :
      f \in UNION { [1..k -> DOMAIN Fragments] : k \in 0..MaxFrags } }

(***************************************************************************)
(* The state machine                                                       *)
(***************************************************************************)
\* What a POST /api/upload request carries: no file part at all, navDocument
\* as a plain form field, a file part under another field name, a navDocument
\* file whose mimetype is not application/pdf, or a navDocument PDF file.
UploadKinds == {"none", "field", "wrong_field", "other_type", "pdf"}

\* A document whose figures differ from the sample text.
OtherDocument == Fragments[5] \o Fragments[6] \o Fragments[1] \o Fragments[2] \o Fragments[3] \o Fragments[4]

DocumentSpace == {mockText, OtherDocument, Fragments[5]}

NoUpload == [kind |-> "idle", document |-> <<>>]

UploadRequests ==
  { [kind |-> k, document |-> <<>>] : k \in {"none", "field"} }
  \cup { [kind |-> k, document |-> d] :
           k \in {"wrong_field", "other_type", "pdf"}, d \in DocumentSpace }

NoResponse == [status |-> 0]

NoAnalysis == [stage |-> "idle"]

Init ==
  /\ text = <<>>
  /\ navData = defaultNavData
  /\ validation = NoValidation
  /\ origin = "none"
  /\ pc = "ready"
  /\ upload = NoUpload
  /\ response = NoResponse
  /\ isGeminiAvailable = FALSE
  /\ analysis = NoAnalysis
  /\ status = "idle"
  /\ error = Null
  /\ requests = {}
  /\ dropped = 0

\* POST /api/upload arrives and is handed to upload.single("navDocument").
ReceiveUpload ==
  /\ pc = "ready"
  /\ \E req \in UploadRequests : upload' = req
  /\ pc' = "multer"
  /\ UNCHANGED <<appVars, text, navData, validation, origin, response, isGeminiAvailable, analysis>>

\* The file filter (or the field-name check of upload.single) hands an error
\* to next(err): the route handler never runs and the server's error
\* middleware answers.
MulterError ==
  /\ pc = "multer"
  /\ upload.kind \in {"wrong_field", "other_type"}
  /\ response' = [status |-> 500, error |-> "Internal server error"]
  /\ pc' = "responded"
  /\ UNCHANGED <<appVars, text, navData, validation, origin, upload, isGeminiAvailable, analysis>>

\* if (!req.file) return res.status(400)
NoFileUploaded ==
  /\ pc = "multer"
  /\ upload.kind \in {"none", "field"}
  /\ response' = [status |-> 400, error |-> "No file uploaded"]
  /\ pc' = "responded"
  /\ UNCHANGED <<appVars, text, navData, validation, origin, upload, isGeminiAvailable, analysis>>

\* POST /api/upload, first step: parsePDF(req.file.path).
ParsePDF ==
  /\ pc = "multer"
  /\ upload.kind = "pdf"
  /\ text' = mockText
  /\ navData' = parsePDF
  /\ origin' = "pdf"
  /\ pc' = "parsed"
  /\ UNCHANGED <<appVars, validation, upload, response, isGeminiAvailable, analysis>>

\* A numeral of 310 digits, and texts with four values or more of which one
\* or two are such numerals.
HugeNumeral == [i \in 1..310 |-> "9"]

OverflowTextSpace ==
  { HugeNumeral \o <<" ">> \o HugeNumeral \o <<" ", "5", " ", "3">>,
    HugeNumeral \o <<" ", "7", " ", "5", " ", "3">>,
    <<"$", "8", ",", "0", "0", "0", " ">> \o HugeNumeral \o <<" ", "5", " ", "3", " ">> \o HugeNumeral }

\* extractNAVData applied to a text and merged onto the default record.
ExtractText ==
  /\ pc = "ready"
  /\ \E t \in TextSpace \cup OverflowTextSpace :
       /\ text' = t
       /\ navData' = ExtractInto(t)
  /\ origin' = "text"
  /\ pc' = "parsed"
  /\ UNCHANGED <<appVars, validation, upload, response, isGeminiAvailable, analysis>>

\* A caller hands a record of its own to the exported validateNAVData.
SupplyRecord ==
  /\ pc = "ready"
  /\ \E r \in RecordSpace : navData' = r
  /\ origin' = "record"
  /\ pc' = "parsed"
  /\ UNCHANGED <<appVars, text, validation, upload, response, isGeminiAvailable, analysis>>

\* POST /api/upload, second step: validateNAVData(navData).
Validate ==
  /\ pc = "parsed"
  /\ validation' = validateNAVData(navData)
  /\ pc' = "validated"
  /\ UNCHANGED <<appVars, text, navData, origin, upload, response, isGeminiAvailable, analysis>>

\* POST /api/upload, last step: res.status(200).json(response).
RespondUpload ==
  /\ pc = "validated"
  /\ origin = "pdf"
  /\ response' = [status |-> 200,
                  navData |-> [navData EXCEPT !.confidence = validation.confidence],
                  validation |-> [isValid |-> validation.isValid,
                                  errors |-> validation.errors,
                                  warnings |-> validation.warnings]]
  /\ pc' = "responded"
  /\ UNCHANGED <<appVars, text, navData, validation, origin, upload, isGeminiAvailable, analysis>>

Next ==
  \/ ReceiveUpload
  \/ MulterError
  \/ NoFileUploaded
  \/ ParsePDF
  \/ ExtractText
  \/ SupplyRecord
  \/ Validate
  \/ RespondUpload

Spec == Init /\ [][Next]_vars

(***************************************************************************)
(* Properties                                                              *)
(***************************************************************************)
Validated == pc = "validated"
Extracted == origin \in {"text", "pdf"} /\ pc \in {"parsed", "validated"}

NumIs(x, i) == x = [k |-> "fin", n |-> i, d |-> 1]

\* C1: the confidence returned by validate is max(0, 100 - 20*|errors| -
\* 5*|warnings|) of the errors and warnings returned with it, an integer in
\* 0..100.
C1_ConfidenceFormula ==
  Validated =>
    LET e == Len(validation.errors)
        w == Len(validation.warnings)
        c == 100 - 20 * e - 5 * w
    IN  /\ validation.confidence = (IF c < 0 THEN 0 ELSE c)
        /\ validation.confidence \in 0..100

C1_Witness ==
  /\ Validated
  /\ Len(validation.errors) = 3
  /\ Len(validation.warnings) = 1
  /\ validation.confidence = 35

\* The four required-field conditions of a record, read off the record.
FundNameMissing == navData.fundName = <<>>
DateMissing == navData.date = <<>>
TotalAssetsNotPositive == IsFin(navData.totalAssets) /\ navData.totalAssets.n <= 0
UnitsNotPositive == IsFin(navData.unitsOutstanding) /\ navData.unitsOutstanding.n <= 0

\* C2: isValid is true exactly when the errors list is empty, that is exactly
\* when no required-field condition fails; warnings do not enter into it.
C2_IsValidIffNoErrors ==
  Validated =>
    /\ validation.isValid <=> (validation.errors = <<>>)
    /\ validation.isValid <=>
         ~(FundNameMissing \/ DateMissing \/ TotalAssetsNotPositive \/ UnitsNotPositive)

C2_Witness ==
  /\ Validated
  /\ validation.isValid
  /\ validation.warnings # <<>>

\* C3: a text from which fewer than 4 positive values are harvested leaves
\* totalAssets, totalLiabilities, unitsOutstanding, navPerUnit and officialNav
\* of the extracted record at 0.
C3_FewValuesLeaveSentinels ==
  (Extracted /\ Len(HarvestNumbers(text)) < 4) =>
    /\ NumIs(navData.totalAssets, 0)
    /\ NumIs(navData.totalLiabilities, 0)
    /\ NumIs(navData.unitsOutstanding, 0)
    /\ NumIs(navData.navPerUnit, 0)
    /\ NumIs(navData.officialNav, 0)

C3_Witness ==
  /\ Extracted
  /\ Len(HarvestNumbers(text)) = 3
  /\ NumIs(navData.totalAssets, 0)

\* The harvested values are the canonical four, in any order.
HarvestIsCanonicalFour ==
  LET h == HarvestNumbers(text)
  IN  /\ Len(h) = 4
      /\ \A v \in {1250000, 50000, 10000, 120} : \E i \in 1..4 : NumIs(h[i], v)

\* C4: a text whose harvested values are 1,250,000, 50,000, 10,000 and 120
\* is assigned by descending magnitude: totalAssets 1250000, totalLiabilities
\* 50000, netAssets 1200000, unitsOutstanding 10000, navPerUnit 120,
\* officialNav 120.
C4_CanonicalAssignment ==
  (Extracted /\ HarvestIsCanonicalFour) =>
    /\ NumIs(navData.totalAssets, 1250000)
    /\ NumIs(navData.totalLiabilities, 50000)
    /\ NumIs(navData.netAssets, 1200000)
    /\ NumIs(navData.unitsOutstanding, 10000)
    /\ NumIs(navData.navPerUnit, 120)
    /\ NumIs(navData.officialNav, 120)

\* The canonical four harvested in an order that is not the descending one.
C4_Witness ==
  /\ Extracted
  /\ HarvestIsCanonicalFour
  /\ NumIs(HarvestNumbers(text)[1], 120)
  /\ NumIs(navData.totalAssets, 1250000)

\* The text states each of the canonical four values.
CarriesCanonicalFour ==
  LET h == HarvestNumbers(text)
  IN  \A v \in {1250000, 50000, 10000, 120} : \E i \in 1..Len(h) : NumIs(h[i], v)

\* C5: for a document text carrying the canonical four values (and a fund
\* name and a date), validate of the extracted record yields no warning and
\* confidence 100.
C5_CanonicalDocumentClean ==
  (Validated /\ Extracted /\ CarriesCanonicalFour /\ ~FundNameMissing /\ ~DateMissing) =>
    /\ validation.warnings = <<>>
    /\ validation.confidence = 100

IsPerturbedRecord ==
  /\ ~FundNameMissing
  /\ ~DateMissing
  /\ NumIs(navData.totalAssets, 1250000)
  /\ NumIs(navData.totalLiabilities, 50000)
  /\ NumIs(navData.netAssets, 1200000)
  /\ NumIs(navData.unitsOutstanding, 10000)
  /\ navData.officialNav = [k |-> "fin", n |-> 241, d |-> 2]

\* C6: with officialNav 120.5 against assets 1250000, liabilities 50000, net
\* assets 1200000 and 10000 units, validate emits exactly one warning, citing
\* 0.4149%, no error, and confidence 95.
C6_PerturbedOfficialNav ==
  (Validated /\ IsPerturbedRecord) =>
    /\ validation.errors = <<>>
    /\ Len(validation.warnings) = 1
    /\ validation.warnings[1].pct = [k |-> "fin", whole |-> 0, frac |-> 4149]
    /\ validation.confidence = 95

C6_Witness ==
  /\ Validated
  /\ IsPerturbedRecord
  /\ Len(validation.warnings) = 1

\* |netAssets/unitsOutstanding - officialNav| / officialNav * 100 > 0.01 for
\* integer netAssets na, integer unitsOutstanding uo > 0 and officialNav
\* n/d > 0, in integers: |na*d - n*uo| * 10000 > n*uo.
ExceedsTolerance(na, uo, n, d) ==
  LET x == na * d - n * uo
  IN  (IF x < 0 THEN -x ELSE x) > (n * uo) \div 10000

CallerRecordWithPositiveNav ==
  /\ origin = "record"
  /\ navData.unitsOutstanding.n > 0
  /\ navData.officialNav.n > 0

Keep(cond, msg) == IF cond THEN <<msg>> ELSE <<>>

\* C8: errors holds exactly one message for each failing required-field
\* condition, in the order fund name, date, total assets, units outstanding,
\* and nothing else.
C8_ErrorsAreTheFailingChecks ==
  Validated =>
    validation.errors =
      Keep(FundNameMissing, "Fund name not found")
      \o Keep(DateMissing, "Date not found")
      \o Keep(TotalAssetsNotPositive, "Total assets must be greater than 0")
      \o Keep(UnitsNotPositive, "Units outstanding must be greater than 0")

C8_Witness ==
  /\ Validated
  /\ validation.errors = <<"Date not found", "Units outstanding must be greater than 0">>
  /\ NumIs(navData.unitsOutstanding, 0)

AllSentinel ==
  /\ FundNameMissing
  /\ DateMissing
  /\ NumIs(navData.totalAssets, 0)
  /\ NumIs(navData.totalLiabilities, 0)
  /\ NumIs(navData.netAssets, 0)
  /\ NumIs(navData.unitsOutstanding, 0)
  /\ NumIs(navData.navPerUnit, 0)
  /\ NumIs(navData.officialNav, 0)

\* C9 as stated: for the all-sentinel record validate returns isValid = false
\* and confidence = 0.
C9_SentinelConfidenceZero ==
  (Validated /\ AllSentinel) =>
    /\ ~validation.isValid
    /\ validation.confidence = 0

\* C9 amended: the all-sentinel record is the worst case of the pipeline, and
\* for it validate returns isValid = false and confidence = 20: no extracted
\* record scores below 20, and exactly the all-sentinel ones score 20.
C9_SentinelConfidenceTwenty ==
  (Validated /\ Extracted) =>
    /\ validation.confidence >= 20
    /\ AllSentinel <=> (validation.confidence = 20)
    /\ AllSentinel => (~validation.isValid /\ validation.warnings = <<>>)

\* The all-sentinel record comes out of extraction (a text with no name, no
\* date and fewer than four positive values) and has been validated.
C9_Witness ==
  /\ Validated
  /\ origin = "text"
  /\ text # <<>>
  /\ AllSentinel
  /\ Len(validation.errors) = 4

NetAssetsConsistent ==
  navData.netAssets = JsSub(navData.totalAssets, navData.totalLiabilities)

\* C10: for every record that violates netAssets = totalAssets -
\* totalLiabilities, the validation result reports it, as an error or as a
\* warning.
C10_NetAssetsViolationReported ==
  (Validated /\ ~NetAssetsConsistent) =>
    (validation.errors # <<>> \/ validation.warnings # <<>>)

(***************************************************************************)
(* Documents handed to extractNAVData: lines of a breakdown, fund names,   *)
(* and degenerate texts                                                    *)
(***************************************************************************)
MaxLines == 4

\* The lines a breakdown document is made of.
BreakdownLines ==
  << <<"A", "s", "s", "e", "t", "s", ":">>,
     <<"C", "a", "s", "h", ":", " ", "$", "2", "0", "0">>,
     <<"T", "o", "t", "a", "l", ":", " ", "$", "1", ",", "7", "0", "0">>,
     <<"T", "o", "t", "a", "l", " ", "A", "s", "s", "e", "t", "s", ":", " ", "$", "9">>,
     <<"F", "e", "e", "s", ":", " ", "$", "3", "0">>,
     <<"S", "u", "m", "m", "a", "r", "y">> >>

\* lines.join("\n")
RECURSIVE JoinLines(_)
JoinLines(lines) ==
  IF lines = <<>> THEN <<>>
  ELSE IF Len(lines) = 1 THEN lines[1]
  ELSE lines[1] \o <<"\n">> \o JoinLines(Tail(lines))

LineTextSpace ==
  { JoinLines([i \in DOMAIN f |-> BreakdownLines[f[i]]]) :
      f \in UNION { [1..k -> DOMAIN BreakdownLines] : k \in 1..MaxLines } }

\* What may precede a fund-name label line, the label lines themselves with
\* the remainder of the line after the label, and what may follow.
NamePrefixes ==
  { <<>>, <<"O", "m", "e", "g", "a", " ", "T", "r", "u", "s", "t", "\n">>, <<"S", "i", "g", "m", "a", " ", "F", "u", "n", "d", "\n">>, <<"R", "e", "p", "o", "r", "t", " ", "2", "0", "2", "4", "\n">> }

LabelLines ==
  { [line |-> <<"F", "u", "n", "d", " ", "N", "a", "m", "e", ":", " ", "A", "c", "m", "e", " ", "G", "r", "o", "w", "t", "h", " ", "F", "u", "n", "d">>, rest |-> <<"A", "c", "m", "e", " ", "G", "r", "o", "w", "t", "h", " ", "F", "u", "n", "d">>],
    [line |-> <<"F", "U", "N", "D", " ", "N", "A", "M", "E", ":", " ", " ", " ", "B", "e", "t", "a", " ", "&", " ", "C", "o", " ", " ">>, rest |-> <<"B", "e", "t", "a", " ", "&", " ", "C", "o">>],
    [line |-> <<"F", "u", "n", "d", " ", "N", "a", "m", "e", ":">>, rest |-> <<>>],
    [line |-> <<"f", "u", "n", "d", " ", "n", "a", "m", "e", ":", " ", " ">>, rest |-> <<>>],
    [line |-> <<"Q", "u", "a", "r", "t", "e", "r", "l", "y", " ", "n", "o", "t", "e", "s">>, rest |-> <<>>] }

NameSuffixes ==
  { <<>>, <<"\n">>, <<"\n", "D", "e", "l", "t", "a", " ", "F", "u", "n", "d">>, <<"\n", "K", "a", "p", "p", "a", " ", "T", "r", "u", "s", "t">>, <<"\n", "F", "u", "n", "d", " ", "N", "a", "m", "e", ":", " ", "O", "t", "h", "e", "r", " ", "O", "n", "e">> }

NameTextSpace ==
  { p \o l.line \o s : p \in NamePrefixes, l \in LabelLines, s \in NameSuffixes }

\* Degenerate texts: empty, separators only, no digits, no line breaks.
EdgeTextSpace ==
  { <<>>, <<",", ",", ",">>, <<",", " ", ",", " ", ",">>, <<"$">>, <<".">>, <<"a", "b", "c", " ", "d", "e", "f">>,
    <<"n", "o", " ", "d", "i", "g", "i", "t", "s", "\n", "i", "n", " ", "h", "e", "r", "e">>, <<"\n", "\n">>, <<"1", "2", " ", "7">>, <<"1", ",", "2", ",", "3", ",", "4">>,
    <<"A", "s", "s", "e", "t", "s", ":", "\n">>, <<"a", " ", "t", "r", "u", "s", "t">>, <<"f", "u", "n", "d">>, <<"T", "o", "t", "a", "l">>, <<"1", "/", "2">> }

\* extractNAVData applied to a breakdown document.
ExtractLines ==
  /\ pc = "ready"
  /\ \E t \in LineTextSpace :
       /\ text' = t
       /\ navData' = ExtractInto(t)
  /\ origin' = "text"
  /\ pc' = "parsed"
  /\ UNCHANGED <<appVars, validation, upload, response, isGeminiAvailable, analysis>>

\* extractNAVData applied to a document with fund names in it.
ExtractNamed ==
  /\ pc = "ready"
  /\ \E t \in NameTextSpace :
       /\ text' = t
       /\ navData' = ExtractInto(t)
  /\ origin' = "text"
  /\ pc' = "parsed"
  /\ UNCHANGED <<appVars, validation, upload, response, isGeminiAvailable, analysis>>

\* extractNAVData applied to a degenerate text.
ExtractEdge ==
  /\ pc = "ready"
  /\ \E t \in EdgeTextSpace :
       /\ text' = t
       /\ navData' = ExtractInto(t)
  /\ origin' = "text"
  /\ pc' = "parsed"
  /\ UNCHANGED <<appVars, validation, upload, response, isGeminiAvailable, analysis>>

NextDocs ==
  \/ ExtractLines
  \/ ExtractNamed
  \/ ExtractEdge
  \/ Validate

SpecDocs == Init /\ [][NextDocs]_vars

HasNoDigit(t) == \A i \in 1..Len(t) : t[i] \notin Digits

HasWord(t, w) == Includes(toLowerCase(t), w)

NumericFields ==
  {"totalAssets", "totalLiabilities", "netAssets", "unitsOutstanding",
   "navPerUnit", "officialNav"}

\* C11: extraction yields a full record for every text, and a field that no
\* part of the text can match keeps its sentinel: fundName is empty when the
\* text has neither "fund" nor "trust" in it, date, the six numeric fields and
\* both breakdowns are empty or zero when the text has no digit, and a
\* breakdown is empty when the text has none of its section keywords.
C11_UnmatchedFieldsKeepSentinels ==
  Extracted =>
    /\ DOMAIN navData = DOMAIN defaultNavData
    /\ navData.rawText = text
    /\ navData.confidence = 0
    /\ (~HasWord(text, <<"f", "u", "n", "d">>) /\ ~HasWord(text, <<"t", "r", "u", "s", "t">>)
          => navData.fundName = <<>>)
    /\ (HasNoDigit(text)
          => /\ navData.date = <<>>
             /\ \A f \in NumericFields : NumIs(navData[f], 0)
             /\ navData.assetBreakdown = <<>>
             /\ navData.liabilityBreakdown = <<>>)
    /\ ((\A w \in sectionKeywords("asset") : ~HasWord(text, w))
          => navData.assetBreakdown = <<>>)
    /\ ((\A w \in sectionKeywords("liability") : ~HasWord(text, w))
          => navData.liabilityBreakdown = <<>>)

\* A text of separators only was extracted and every field is at its sentinel.
C11_Witness ==
  /\ Extracted
  /\ text = <<",", " ", ",", " ", ",">>
  /\ navData = [defaultNavData EXCEPT !.rawText = text]

IsLabelLine(l) == HasWord(l.line, <<"f", "u", "n", "d", " ", "n", "a", "m", "e", ":">>)

ReplyBodies == {"prose", "broken_object", "scalar", "empty_object", "full_object"}

ReplyTexts == [fenced : BOOLEAN, wrapped : BOOLEAN, body : ReplyBodies]

CallFails == [fails |-> TRUE]

Replies == {CallFails} \cup { [fails |-> FALSE, reply |-> t] : t \in ReplyTexts }

\* No call is made when the service is not configured.
NoReply == [fails |-> FALSE, reply |-> [fenced |-> FALSE, wrapped |-> FALSE, body |-> "none"]]

RepliesNow == IF isGeminiAvailable THEN Replies ELSE {NoReply}

\* The object a well-behaved reply carries.
FullReconstruction ==
  [reconstructedNav |-> Int2Num(120), calculationSteps |-> <<"step">>,
   confidence |-> 90, notes |-> "notes", potentialIssues |-> << >>]

FullComparison ==
  [anomalies |-> << >>, severity |-> "low", explanation |-> "explanation",
   recommendations |-> << >>, requiresInvestigation |-> FALSE]

\* text.match(/```json\s*(\{.*?\})\s*```/s): the captured group, when the text
\* holds a fenced block that starts with { and ends with }.
jsonMatch(replyText) ==
  IF replyText.fenced /\ replyText.body \in {"broken_object", "empty_object", "full_object"}
  THEN [ok |-> TRUE, g1 |-> [fenced |-> FALSE, wrapped |-> FALSE, body |-> replyText.body]]
  ELSE [ok |-> FALSE]

\* JSON.parse(jsonStr): succeeds when the whole string is one JSON value.
JSONparse(jsonStr, fullObject) ==
  IF jsonStr.fenced \/ jsonStr.wrapped \/ jsonStr.body \in {"prose", "broken_object"}
  THEN [ok |-> FALSE]
  ELSE IF jsonStr.body = "scalar" THEN [ok |-> TRUE, type |-> "number", fields |-> << >>]
  ELSE IF jsonStr.body = "empty_object" THEN [ok |-> TRUE, type |-> "object", fields |-> << >>]
  ELSE [ok |-> TRUE, type |-> "object", fields |-> fullObject]

\* jsonStr = jsonMatch ? jsonMatch[1] : text; JSON.parse(jsonStr)
ParseReply(replyText, fullObject) ==
  LET m == jsonMatch(replyText)
  IN  JSONparse(IF m.ok THEN m.g1 ELSE replyText, fullObject)

Raised(message) == [raised |-> TRUE, error |-> message]
Returned(value) == [raised |-> FALSE, value |-> value]

\* A record as it arrives in req.body: JSON.stringify writes NaN and the
\* infinities as null, and JSON.parse reads null back.
JSONNumber(x) == IF IsFin(x) THEN x ELSE Null

JSONEntries(breakdown) ==
  [i \in DOMAIN breakdown |-> [breakdown[i] EXCEPT !.amount = JSONNumber(@)]]

JSONRecord(nd) ==
  [f \in DOMAIN nd |->
     IF f \in NumericFields THEN JSONNumber(nd[f])
     ELSE IF f \in {"assetBreakdown", "liabilityBreakdown"} THEN JSONEntries(nd[f])
     ELSE nd[f]]

\* The operand of an arithmetic operator: null counts as 0.
ToNumber(x) == IF x = Null THEN Int2Num(0) ELSE x

\* navData.totalAssets.toLocaleString() and the like throw a TypeError on a
\* null figure.
HasNullFigure(nd) ==
  \E f \in {"totalAssets", "totalLiabilities", "netAssets", "unitsOutstanding", "navPerUnit"} :
    nd[f] = Null

\* The values interpolated into a fallback text.
RecordFigures(nd) ==
  [fundName |-> nd.fundName, totalAssets |-> nd.totalAssets,
   totalLiabilities |-> nd.totalLiabilities, netAssets |-> nd.netAssets,
   unitsOutstanding |-> nd.unitsOutstanding, navPerUnit |-> toFixed4(nd.navPerUnit)]

analyzeNAV(nd, reply) ==
  IF HasNullFigure(nd) \/ nd.officialNav = Null THEN Raised("Gemini AI analysis failed")
  ELSE IF ~isGeminiAvailable
  THEN Returned([analysis |-> [template |-> "Fallback NAV Analysis", figures |-> RecordFigures(nd)],
                 model |-> "fallback", isFallback |-> TRUE])
  ELSE IF reply.fails THEN Raised("Gemini AI analysis failed")
  ELSE Returned([analysis |-> reply.reply, model |-> "gemini-pro"])

\* Mutant: the record built around an unparsed text keeps the payload only,
\* without the prose and the fence around it.
ParsedReconstruction_PayloadOnly(nd, replyText) ==
  LET parsed == ParseReply(replyText, FullReconstruction)
  IN  IF parsed.ok THEN parsed.fields
      ELSE [reconstructedNav |-> nd.navPerUnit,
            calculationSteps |-> <<"Used extracted NAV per unit">>,
            confidence |-> 50,
            notes |-> [replyText EXCEPT !.wrapped = FALSE, !.fenced = FALSE],
            potentialIssues |-> <<"Could not parse structured response">>]

\* The parse step of reconstructNAV: the parsed object, or the record built
\* around the unparsed text.
ParsedReconstruction(nd, replyText) ==
  LET parsed == ParseReply(replyText, FullReconstruction)
  IN  IF parsed.ok THEN parsed.fields
      ELSE [reconstructedNav |-> nd.navPerUnit,
            calculationSteps |-> <<"Used extracted NAV per unit">>,
            confidence |-> 50,
            notes |-> replyText,
            potentialIssues |-> <<"Could not parse structured response">>]

\* Mutant: the fallback reconstruction echoes the official NAV.
reconstructNAV_EchoesOfficialNav(nd, reply) ==
  IF ~isGeminiAvailable
  THEN Returned([reconstructedNav |-> nd.officialNav,
                 calculationSteps |-> <<"Used extracted NAV per unit as fallback",
                                        "No AI reconstruction available without API key">>,
                 confidence |-> 50,
                 notes |-> "Fallback reconstruction - Gemini AI not configured",
                 potentialIssues |-> <<"Gemini API key not configured",
                                       "Limited confidence in reconstruction">>,
                 model |-> "fallback", isFallback |-> TRUE])
  ELSE IF reply.fails THEN Raised("NAV reconstruction failed")
  ELSE Returned([model |-> "gemini-pro"] @@ ParsedReconstruction(nd, reply.reply))

reconstructNAV(nd, reply) ==
  IF ~isGeminiAvailable
  THEN Returned([reconstructedNav |-> nd.navPerUnit,
                 calculationSteps |-> <<"Used extracted NAV per unit as fallback",
                                        "No AI reconstruction available without API key">>,
                 confidence |-> 50,
                 notes |-> "Fallback reconstruction - Gemini AI not configured",
                 potentialIssues |-> <<"Gemini API key not configured",
                                       "Limited confidence in reconstruction">>,
                 model |-> "fallback", isFallback |-> TRUE])
  ELSE IF reply.fails THEN Raised("NAV reconstruction failed")
  ELSE Returned([model |-> "gemini-pro"] @@ ParsedReconstruction(nd, reply.reply))

\* reconstructedData.reconstructedNav: undefined becomes NaN in the subtraction.
reconstructedNavOf(reconstructedData) ==
  IF "reconstructedNav" \in DOMAIN reconstructedData
  THEN reconstructedData.reconstructedNav ELSE NaN

compareNAV(officialData, reconstructedData, reply) ==
  IF ~isGeminiAvailable
  THEN LET difference == MathAbs(JsSub(ToNumber(officialData.officialNav),
                                       ToNumber(reconstructedNavOf(reconstructedData))))
           percentageDiff == JsMul(JsDiv(difference, ToNumber(officialData.officialNav)), Int2Num(100))
       IN  Returned([anomalies |-> <<"Gemini AI not configured for advanced analysis",
                                     [msg |-> "Basic difference detected",
                                      difference |-> toFixed4(difference),
                                      pct |-> toFixed4(percentageDiff)]>>,
                     severity |-> IF JsGt(percentageDiff, Int2Num(1)) THEN "medium" ELSE "low",
                     explanation |-> "Fallback comparison - limited analysis available without AI",
                     recommendations |-> <<"Configure Gemini API key for advanced analysis",
                                           "Manual review recommended">>,
                     requiresInvestigation |-> JsGt(percentageDiff, Num(1, 100)),
                     model |-> "fallback", isFallback |-> TRUE])
  ELSE IF reply.fails THEN Raised("NAV comparison failed")
  ELSE LET parsed == ParseReply(reply.reply, FullComparison)
       IN  Returned([model |-> "gemini-pro"]
                    @@ (IF parsed.ok THEN parsed.fields
                        ELSE [anomalies |-> <<"Could not parse structured comparison">>,
                              severity |-> "medium",
                              explanation |-> reply.reply,
                              recommendations |-> <<"Manual review required">>,
                              requiresInvestigation |-> TRUE]))

explainNAV(nd, reply) ==
  IF HasNullFigure(nd) THEN Raised("NAV explanation failed")
  ELSE IF ~isGeminiAvailable
  THEN Returned([explanation |-> [template |-> "Fallback NAV Explanation", figures |-> RecordFigures(nd)],
                 model |-> "fallback", isFallback |-> TRUE])
  ELSE IF reply.fails THEN Raised("NAV explanation failed")
  ELSE Returned([explanation |-> reply.reply, model |-> "gemini-pro"])

\* The records sent to the analysis routes: the record of the repository's
\* endpoint test, the canonical figures, the canonical figures with a
\* different official NAV, and the all-sentinel record.
TestRecord ==
  [defaultNavData EXCEPT
     !.fundName = <<"T", "e", "s", "t", " ", "F", "u", "n", "d">>, !.date = <<"2", "0", "2", "4", "-", "0", "1", "-", "0", "1">>,
     !.totalAssets = Int2Num(1000000), !.totalLiabilities = Int2Num(50000),
     !.netAssets = Int2Num(950000), !.unitsOutstanding = Int2Num(10000),
     !.navPerUnit = Int2Num(95), !.officialNav = Int2Num(95),
     !.rawText = <<"T", "e", "s", "t", " ", "N", "A", "V", " ", "d", "o", "c", "u", "m", "e", "n", "t", " ", "c", "o", "n", "t", "e", "n", "t">>, !.confidence = 85]

CanonicalRecord ==
  [defaultNavData EXCEPT
     !.fundName = SomeName, !.date = SomeDate,
     !.totalAssets = Int2Num(1250000), !.totalLiabilities = Int2Num(50000),
     !.netAssets = Int2Num(1200000), !.unitsOutstanding = Int2Num(10000),
     !.navPerUnit = Int2Num(120), !.officialNav = Int2Num(120)]

AnalysisRecords ==
  { TestRecord, CanonicalRecord,
    [CanonicalRecord EXCEPT !.officialNav = Num(241, 2)],
    defaultNavData }

Operations == {"analyzeNAV", "reconstructNAV", "compareNAV", "explainNAV"}

Pending == [raised |-> FALSE, pending |-> TRUE]

Settled(outcome) == "pending" \notin DOMAIN outcome

\* The reconstructions a caller of compareNAV may hand over.
ReconstructedDataFor(nd) ==
  { [reconstructedNav |-> nd.navPerUnit, confidence |-> 50], FullReconstruction, << >> }

\* The process starts with or without a usable GEMINI_API_KEY.
InitAnalysis ==
  /\ text = <<>>
  /\ navData = defaultNavData
  /\ validation = NoValidation
  /\ origin = "none"
  /\ pc = "ready"
  /\ upload = NoUpload
  /\ response = NoResponse
  /\ isGeminiAvailable \in BOOLEAN
  /\ analysis = NoAnalysis
  /\ status = "idle"
  /\ error = Null
  /\ requests = {}
  /\ dropped = 0

\* One of the four exported operations is called on a record.
CallOperation ==
  /\ pc = "ready"
  /\ \E op \in Operations, nd \in AnalysisRecords, reply \in RepliesNow :
       /\ navData' = nd
       /\ \E rd \in (IF op = "compareNAV" THEN ReconstructedDataFor(nd) ELSE {<< >>}) :
            analysis' =
              [stage |-> "called", op |-> op, reply |-> reply,
               outcome |-> CASE op = "analyzeNAV" -> analyzeNAV(nd, reply)
                             [] op = "reconstructNAV" -> reconstructNAV(nd, reply)
                             [] op = "compareNAV" -> compareNAV(nd, rd, reply)
                             [] op = "explainNAV" -> explainNAV(nd, reply)]
  /\ origin' = "record"
  /\ pc' = "returned"
  /\ UNCHANGED <<appVars, text, validation, upload, response, isGeminiAvailable>>

\* POST /api/analysis/full without navData in the body.
FullMissingData ==
  /\ pc = "ready"
  /\ response' = [status |-> 400, error |-> "Missing NAV data"]
  /\ pc' = "responded"
  /\ UNCHANGED <<appVars, text, navData, validation, origin, upload, isGeminiAvailable, analysis>>

\* POST /api/analysis/full with a record: reconstructNAV and explainNAV are
\* both started under Promise.all.
ReceiveFull ==
  /\ pc = "ready"
  /\ \E nd \in AnalysisRecords : navData' = nd
  /\ analysis' = [stage |-> "full", reconstruction |-> Pending,
                  explanation |-> Pending, comparison |-> Pending,
                  comparedWith |-> << >>,
                  log |-> <<"reconstruct_started", "explain_started">>]
  /\ origin' = "record"
  /\ pc' = "promise_all"
  /\ UNCHANGED <<appVars, text, validation, upload, response, isGeminiAvailable>>

\* POST /api/analysis/full with the record of the upload response, as the
\* client received it and sends it back.
PostExtracted ==
  /\ pc = "validated"
  /\ origin = "text"
  /\ navData' = JSONRecord(navData)
  /\ analysis' = [stage |-> "full", reconstruction |-> Pending,
                  explanation |-> Pending, comparison |-> Pending,
                  comparedWith |-> << >>,
                  log |-> <<"reconstruct_started", "explain_started">>]
  /\ pc' = "promise_all"
  /\ UNCHANGED <<appVars, text, validation, origin, upload, response, isGeminiAvailable>>

\* The promise of reconstructNAV settles; it may do so after the route has
\* answered for the failure of explainNAV.
ReconstructSettles ==
  /\ analysis.stage = "full"
  /\ pc \in {"promise_all", "responded"}
  /\ ~Settled(analysis.reconstruction)
  /\ \E reply \in RepliesNow :
       LET outcome == reconstructNAV(navData, reply)
       IN  analysis' = [analysis EXCEPT
                          !.reconstruction = outcome,
                          !.log = Append(@, IF outcome.raised THEN "reconstruct_failed"
                                            ELSE "reconstruct_ok")]
  /\ UNCHANGED <<appVars, text, navData, validation, origin, pc, upload, response, isGeminiAvailable>>

\* The promise of explainNAV settles; it may do so after the route has
\* answered for the failure of reconstructNAV.
ExplainSettles ==
  /\ analysis.stage = "full"
  /\ pc \in {"promise_all", "responded"}
  /\ ~Settled(analysis.explanation)
  /\ \E reply \in RepliesNow :
       LET outcome == explainNAV(navData, reply)
       IN  analysis' = [analysis EXCEPT
                          !.explanation = outcome,
                          !.log = Append(@, IF outcome.raised THEN "explain_failed"
                                            ELSE "explain_ok")]
  /\ UNCHANGED <<appVars, text, navData, validation, origin, pc, upload, response, isGeminiAvailable>>

\* const comparison = await compareNAV(navData, reconstruction), once both
\* promises are fulfilled.
\* Mutant: the comparison starts as soon as the reconstruction is there.
CompareSettles_WithoutExplanation ==
  /\ pc = "promise_all"
  /\ Settled(analysis.reconstruction) /\ ~analysis.reconstruction.raised
  /\ ~(Settled(analysis.explanation) /\ analysis.explanation.raised)
  /\ \E reply \in RepliesNow :
       LET outcome == compareNAV(navData, analysis.reconstruction.value, reply)
       IN  analysis' = [analysis EXCEPT
                          !.comparison = outcome,
                          !.comparedWith = analysis.reconstruction.value,
                          !.log = @ \o <<"compare_called",
                                         IF outcome.raised THEN "compare_failed"
                                         ELSE "compare_ok">>]
  /\ pc' = "compared"
  /\ UNCHANGED <<appVars, text, navData, validation, origin, upload, response, isGeminiAvailable>>

CompareSettles ==
  /\ pc = "promise_all"
  /\ Settled(analysis.reconstruction) /\ ~analysis.reconstruction.raised
  /\ Settled(analysis.explanation) /\ ~analysis.explanation.raised
  /\ \E reply \in RepliesNow :
       LET outcome == compareNAV(navData, analysis.reconstruction.value, reply)
       IN  analysis' = [analysis EXCEPT
                          !.comparison = outcome,
                          !.comparedWith = analysis.reconstruction.value,
                          !.log = @ \o <<"compare_called",
                                         IF outcome.raised THEN "compare_failed"
                                         ELSE "compare_ok">>]
  /\ pc' = "compared"
  /\ UNCHANGED <<appVars, text, navData, validation, origin, upload, response, isGeminiAvailable>>

\* The catch block of the route: any of the three operations raised.
FullFails ==
  /\ \/ /\ pc = "promise_all"
        /\ analysis.reconstruction.raised \/ analysis.explanation.raised
     \/ /\ pc = "compared"
        /\ analysis.comparison.raised
  /\ response' = [status |-> 500, error |-> "Full NAV analysis failed"]
  /\ analysis' = [analysis EXCEPT !.log = Append(@, "response_500")]
  /\ pc' = "responded"
  /\ UNCHANGED <<appVars, text, navData, validation, origin, upload, isGeminiAvailable>>

\* res.status(200).json(response)
RespondFull ==
  /\ pc = "compared"
  /\ ~analysis.comparison.raised
  /\ response' =
       [status |-> 200,
        analysis |-> [reconstruction |-> analysis.reconstruction.value,
                      comparison |-> analysis.comparison.value,
                      explanation |-> analysis.explanation.value],
        originalData |-> navData]
  /\ analysis' = [analysis EXCEPT !.log = Append(@, "response_200")]
  /\ pc' = "responded"
  /\ UNCHANGED <<appVars, text, navData, validation, origin, upload, isGeminiAvailable>>

\* The three steps of the application in fallback mode: a document is
\* extracted and validated, and its record is sent to /full.
NextPipeline ==
  \/ ExtractText
  \/ Validate
  \/ PostExtracted
  \/ ReconstructSettles
  \/ ExplainSettles
  \/ CompareSettles
  \/ FullFails
  \/ RespondFull

SpecPipeline == Init /\ [][NextPipeline]_vars

NextAnalysis ==
  \/ CallOperation
  \/ FullMissingData
  \/ ReceiveFull
  \/ ReconstructSettles
  \/ ExplainSettles
  \/ CompareSettles
  \/ FullFails
  \/ RespondFull

SpecAnalysis == InitAnalysis /\ [][NextAnalysis]_vars

Called(op) == analysis.stage = "called" /\ analysis.op = op

IsFallbackResponse(outcome) ==
  /\ ~outcome.raised
  /\ outcome.value.model = "fallback"
  /\ "isFallback" \in DOMAIN outcome.value
  /\ outcome.value.isFallback

\* C14: whenever the reasoning service is unavailable, because it is not
\* configured or because the call to it fails, each of the four operations
\* returns a response labelled as fallback instead of raising an error.
C14_UnavailableGivesFallback ==
  analysis.stage = "called" =>
    ((~isGeminiAvailable \/ analysis.reply.fails)
       => IsFallbackResponse(analysis.outcome))

\* The reply is not JSON: the payload is prose or a malformed object, or a
\* JSON payload has prose around it without a fence, or a fence holds
\* something other than an object.
UnparseableReply(replyText) ==
  \/ replyText.body \in {"prose", "broken_object"}
  \/ replyText.wrapped /\ ~replyText.fenced
  \/ replyText.fenced /\ replyText.body = "scalar"

\* C15: when the service is configured and answers with a text that does not
\* parse as JSON, reconstructNAV returns (it does not raise) a result whose
\* notes is the entire reply text, whose confidence is 50 and whose
\* reconstructedNav is the record's navPerUnit.
C15_UnparsedReplyBecomesNotes ==
  (/\ Called("reconstructNAV")
   /\ isGeminiAvailable
   /\ ~analysis.reply.fails
   /\ UnparseableReply(analysis.reply.reply))
    => /\ ~analysis.outcome.raised
       /\ analysis.outcome.value.notes = analysis.reply.reply
       /\ analysis.outcome.value.confidence = 50
       /\ analysis.outcome.value.reconstructedNav = navData.navPerUnit
       /\ analysis.outcome.value.model = "gemini-pro"

\* reconstructNAV was called on the canonical record and the service answered
\* with prose around an unfenced object.
C15_Witness ==
  /\ Called("reconstructNAV")
  /\ isGeminiAvailable
  /\ navData = CanonicalRecord
  /\ ~analysis.reply.fails
  /\ analysis.reply.reply = [fenced |-> FALSE, wrapped |-> TRUE, body |-> "full_object"]
  /\ analysis.outcome.value.notes = analysis.reply.reply
  /\ analysis.outcome.value.confidence = 50

FullAnswered == analysis.stage = "full" /\ pc = "responded"

\* C16: when no API key is configured, POST /api/analysis/full with a
\* complete record is answered with status 500.
C16_NoKeyFullAnswers500 ==
  (~isGeminiAvailable /\ FullAnswered) => response.status = 500

UploadAnswered == upload.kind \in UploadKinds /\ pc = "responded"

\* C17: every upload request that does not carry a PDF file in the
\* navDocument field (no file, a plain form field, a file under another
\* field, a file of another type) is answered with status 400, and nothing is
\* parsed or validated for it.
C17_NonPdfUploadRejected400 ==
  (UploadAnswered /\ upload.kind # "pdf")
    => /\ response.status = 400
       /\ origin = "none"
       /\ navData = defaultNavData
       /\ validation = NoValidation

\* C18: the navData of an upload's response is the data extracted from the
\* uploaded document's content (the confidence aside, which validation sets).
C18_ResponseFromUploadedDocument ==
  (UploadAnswered /\ upload.kind = "pdf")
    => /\ response.status = 200
       /\ \A f \in DOMAIN defaultNavData \ {"confidence"} :
            response.navData[f] = ExtractInto(upload.document)[f]

BreakdownField(type) == IF type = "asset" THEN "assetBreakdown" ELSE "liabilityBreakdown"

BreakdownTypes == {"asset", "liability"}

\* What each line of BreakdownLines is for a breakdown type: the line that
\* enters (or re-enters) the section, or a line with the entry it holds.
EntersSection(line, type) ==
  \/ type = "asset" /\ line \in {<<"A", "s", "s", "e", "t", "s", ":">>, <<"T", "o", "t", "a", "l", " ", "A", "s", "s", "e", "t", "s", ":", " ", "$", "9">>}
  \/ type = "liability" /\ line = <<"F", "e", "e", "s", ":", " ", "$", "3", "0">>

EntryOf(line, type) ==
  IF EntersSection(line, type) THEN << >>
  ELSE IF line = <<"C", "a", "s", "h", ":", " ", "$", "2", "0", "0">>
       THEN << [description |-> <<"C", "a", "s", "h", ":">>, amount |-> Int2Num(200)] >>
  ELSE IF line = <<"T", "o", "t", "a", "l", ":", " ", "$", "1", ",", "7", "0", "0">>
       THEN << [description |-> <<"T", "o", "t", "a", "l", ":">>, amount |-> Int2Num(1700)] >>
  ELSE IF line = <<"T", "o", "t", "a", "l", " ", "A", "s", "s", "e", "t", "s", ":", " ", "$", "9">>
       THEN << [description |-> <<"T", "o", "t", "a", "l", " ", "A", "s", "s", "e", "t", "s", ":">>, amount |-> Int2Num(9)] >>
  ELSE IF line = <<"F", "e", "e", "s", ":", " ", "$", "3", "0">>
       THEN << [description |-> <<"F", "e", "e", "s", ":">>, amount |-> Int2Num(30)] >>
  ELSE << >>

ContainsTotalOrSummary(line) == HasWord(line, <<"t", "o", "t", "a", "l">>) \/ HasWord(line, <<"s", "u", "m", "m", "a", "r", "y">>)

\* The entries of the lines from..to, in document order.
RECURSIVE EntriesOfLines(_, _, _, _)
EntriesOfLines(lines, from, to, type) ==
  IF from > to THEN << >>
  ELSE EntryOf(lines[from], type) \o EntriesOfLines(lines, from + 1, to, type)

IsBreakdownDocument ==
  \A k \in DOMAIN SplitLines(text, 1) :
    \E n \in DOMAIN BreakdownLines : SplitLines(text, 1)[k] = BreakdownLines[n]

\* The index of the first line that enters the section, 0 if there is none.
EnteringLine(lines, type) ==
  IF \E k \in DOMAIN lines : EntersSection(lines[k], type)
  THEN Least({k \in DOMAIN lines : EntersSection(lines[k], type)})
  ELSE 0

\* C19: when no line after the section-entering line contains "total" or
\* "summary", the breakdown holds the entry of every line after the entering
\* line, up to the end of the text and in document order (a line with a
\* section keyword re-enters the section and holds no entry).
C19_ScansToEndOfText ==
  (Extracted /\ IsBreakdownDocument) =>
    \A type \in BreakdownTypes :
      LET lines == SplitLines(text, 1)
          e == EnteringLine(lines, type)
      IN  (e > 0 /\ \A k \in (e + 1)..Len(lines) : ~ContainsTotalOrSummary(lines[k]))
            => navData[BreakdownField(type)] = EntriesOfLines(lines, e + 1, Len(lines), type)

\* A section with two entries after its entering line and no total line.
C19_Witness ==
  /\ Extracted
  /\ text = <<"A", "s", "s", "e", "t", "s", ":", "\n", "C", "a", "s", "h", ":", " ", "$", "2", "0", "0", "\n", "F", "e", "e", "s", ":", " ", "$", "3", "0", "\n", "C", "a", "s", "h", ":", " ", "$", "2", "0", "0">>
  /\ Len(navData.assetBreakdown) = 3
  /\ navData.assetBreakdown[2].description = <<"F", "e", "e", "s", ":">>
  /\ navData.liabilityBreakdown = << [description |-> <<"C", "a", "s", "h", ":">>, amount |-> Int2Num(200)] >>

\* C20: once the scan is in-section, the first line that contains "total" or
\* "summary" ends the collection: the breakdown holds the entries of the
\* lines after the entering line up to that line, and none of a later line.
C20_TotalLineStopsCollection ==
  (Extracted /\ IsBreakdownDocument) =>
    \A type \in BreakdownTypes :
      LET lines == SplitLines(text, 1)
          e == EnteringLine(lines, type)
          stops == {k \in (e + 1)..Len(lines) : ContainsTotalOrSummary(lines[k])}
      IN  (e > 0 /\ stops # {})
            => navData[BreakdownField(type)] = EntriesOfLines(lines, e + 1, Least(stops), type)

\* The entry a line holds by its monetary token alone, whatever keyword the
\* line contains.
TokenEntryOf(line) ==
  IF line = <<"C", "a", "s", "h", ":", " ", "$", "2", "0", "0">>
  THEN << [description |-> <<"C", "a", "s", "h", ":">>, amount |-> Int2Num(200)] >>
  ELSE IF line = <<"T", "o", "t", "a", "l", ":", " ", "$", "1", ",", "7", "0", "0">>
  THEN << [description |-> <<"T", "o", "t", "a", "l", ":">>, amount |-> Int2Num(1700)] >>
  ELSE IF line = <<"T", "o", "t", "a", "l", " ", "A", "s", "s", "e", "t", "s", ":", " ", "$", "9">>
  THEN << [description |-> <<"T", "o", "t", "a", "l", " ", "A", "s", "s", "e", "t", "s", ":">>, amount |-> Int2Num(9)] >>
  ELSE IF line = <<"F", "e", "e", "s", ":", " ", "$", "3", "0">>
  THEN << [description |-> <<"F", "e", "e", "s", ":">>, amount |-> Int2Num(30)] >>
  ELSE << >>

RECURSIVE TokenEntriesOfLines(_, _, _)
TokenEntriesOfLines(lines, from, to) ==
  IF from > to THEN << >>
  ELSE TokenEntryOf(lines[from]) \o TokenEntriesOfLines(lines, from + 1, to)

\* C21: the section-entering line is not emitted, and every line after it
\* that holds a monetary token with a parseable amount and a description is
\* emitted as one entry, description being the line without the token,
\* trimmed (stated for documents whose scan runs to the end of the text: no
\* line after the entering line contains "total" or "summary").
C21_EveryMonetaryLineEmitted ==
  (Extracted /\ IsBreakdownDocument) =>
    \A type \in BreakdownTypes :
      LET lines == SplitLines(text, 1)
          e == EnteringLine(lines, type)
      IN  (e > 0 /\ \A k \in (e + 1)..Len(lines) : ~ContainsTotalOrSummary(lines[k]))
            => navData[BreakdownField(type)] = TokenEntriesOfLines(lines, e + 1, Len(lines))

IsJsNumber(x) == DOMAIN x = {"k", "n", "d"} /\ x # Null

\* C22: whenever reconstructNAV returns, on the fallback path, the parsed
\* path or the parse-failure path, its result has a reconstructedNav that is
\* a number and a confidence that is a number in 0..100.
C22_ReconstructionConforms ==
  (Called("reconstructNAV") /\ ~analysis.outcome.raised)
    => /\ "reconstructedNav" \in DOMAIN analysis.outcome.value
       /\ IsJsNumber(analysis.outcome.value.reconstructedNav)
       /\ "confidence" \in DOMAIN analysis.outcome.value
       /\ analysis.outcome.value.confidence \in 0..100

\* The positions of an event in the log of a /full request.
Positions(event) == {i \in DOMAIN analysis.log : analysis.log[i] = event}

Happened(event) == Positions(event) # {}

Failures == {"reconstruct_failed", "explain_failed", "compare_failed"}

Responses == {"response_200", "response_500"}

\* C23: in a /full request reconstructNAV and explainNAV are started
\* together; compareNAV is called at most once, only after both have
\* completed successfully and with the reconstruction as its second argument;
\* after a failure compareNAV is not called and the answer is 500; and never
\* more than one response is sent, exactly one once the route has finished.
C23_FullRouteOrder ==
  analysis.stage = "full" =>
    /\ analysis.log[1] = "reconstruct_started" /\ analysis.log[2] = "explain_started"
    /\ Cardinality(Positions("compare_called")) <= 1
    /\ \A c \in Positions("compare_called") :
         /\ \E i \in Positions("reconstruct_ok") : i < c
         /\ \E i \in Positions("explain_ok") : i < c
         /\ \A i \in 1..(c - 1) : analysis.log[i] \notin Failures
         /\ analysis.comparedWith = analysis.reconstruction.value
    /\ Cardinality({i \in DOMAIN analysis.log : analysis.log[i] \in Responses}) <= 1
    /\ (pc = "responded"
          => Cardinality({i \in DOMAIN analysis.log : analysis.log[i] \in Responses}) = 1)
    /\ \A r \in Positions("response_500") :
         \E i \in 1..(r - 1) : analysis.log[i] \in Failures
    /\ \A r \in Positions("response_200") :
         /\ response.status = 200
         /\ \A i \in DOMAIN analysis.log : analysis.log[i] \notin Failures
         /\ Happened("compare_ok")
    /\ (Happened("response_500") => response.status = 500)

\* explainNAV failed after reconstructNAV had succeeded: compareNAV was never
\* called and the request was answered 500.
C23_Witness ==
  /\ analysis.stage = "full"
  /\ pc = "responded"
  /\ Happened("reconstruct_ok")
  /\ Happened("explain_failed")
  /\ ~Happened("compare_called")
  /\ response.status = 500

\* C27: validate produces at most 4 errors and at most 1 warning, so the
\* confidence is 100 - 20e - 5w without the clamp at 0 taking effect, one of
\* the ten values with e in 0..4 and w in 0..1, and never below 15.
C27_ConfidenceNeverClamped ==
  Validated =>
    /\ Len(validation.errors) <= 4
    /\ Len(validation.warnings) <= 1
    /\ validation.confidence
         = 100 - (20 * Len(validation.errors)) - (5 * Len(validation.warnings))
    /\ validation.confidence
         \in {100 - (20 * e) - (5 * w) : e \in 0..4, w \in 0..1}
    /\ validation.confidence >= 15

\* The lowest score: all four errors and the warning together.
C27_Witness ==
  /\ Validated
  /\ Len(validation.errors) = 4
  /\ Len(validation.warnings) = 1
  /\ validation.confidence = 15

HarvestedAtLeastFour == Len(HarvestNumbers(text)) >= MinValues

\* x >= y
JsGe(x, y) == x.k # "nan" /\ y.k # "nan" /\ ~JsGt(y, x)

StoppingLines(lines, e, type) ==
  {k \in (e + 1)..Len(lines) : ContainsTotalOrSummary(lines[k]) /\ ~EntersSection(lines[k], type)}

PipelineAnswered ==
  /\ origin = "text" /\ analysis.stage = "full"
  /\ pc = "responded" /\ response.status = 200

\* C30: in fallback mode, for every record produced by extractNAVData, the
\* requiresInvestigation flag returned by POST /api/analysis/full is true
\* exactly when validateNAVData emitted the NAV discrepancy warning for that
\* record, and the severity returned is "low" or "medium".
C30_FlagMatchesValidationWarning ==
  PipelineAnswered =>
    /\ ~isGeminiAvailable
    /\ response.analysis.comparison.isFallback
    /\ response.analysis.comparison.requiresInvestigation = (validation.warnings # << >>)
    /\ response.analysis.comparison.severity \in {"low", "medium"}

\* A record with a discrepancy: the warning was emitted and the flag is set.
C30_Witness ==
  /\ PipelineAnswered
  /\ validation.warnings # << >>
  /\ response.analysis.comparison.requiresInvestigation
  /\ response.analysis.comparison.severity = "medium"

\* A record without discrepancy: no warning and no flag.
C30_WitnessConsistent ==
  /\ PipelineAnswered
  /\ Len(HarvestNumbers(text)) >= MinValues
  /\ validation.warnings = << >>
  /\ ~response.analysis.comparison.requiresInvestigation

(***************************************************************************)
(* The App component and the uploads and analyses it has in flight         *)
(***************************************************************************)
MaxDrops == 3

\* The records the upload route may answer with.
AppRecords == {TestRecord, CanonicalRecord}

\* The body of a 200 answer of /api/analysis/full for a record.
FullAnalysisResponseFor(data) == [success |-> TRUE, originalData |-> data]

\* useState("idle"), useState(null) three times; nothing in flight.
InitApp ==
  /\ text = <<>>
  /\ validation = NoValidation
  /\ origin = "none"
  /\ pc = "ready"
  /\ upload = NoUpload
  /\ response = NoResponse
  /\ isGeminiAvailable = FALSE
  /\ status = "idle"
  /\ navData = Null
  /\ analysis = Null
  /\ error = Null
  /\ requests = {}
  /\ dropped = 0

\* onDrop: a file is dropped on the FileUpload component, which is rendered
\* while status is "idle" and is not disabled while an upload is running; the
\* file goes to /api/upload.
DropFile ==
  /\ status = "idle"
  /\ dropped < MaxDrops
  /\ \E data \in AppRecords :
       requests' = requests \cup {[id |-> dropped + 1, kind |-> "upload",
                                   data |-> data, beforeReset |-> FALSE]}
  /\ dropped' = dropped + 1
  /\ UNCHANGED <<text, navData, validation, origin, pc, upload, response,
                 isGeminiAvailable, analysis, status, error>>

\* The upload answers with success: onFileUpload(result.navData), that is
\* handleFileUpload up to its await of the /api/analysis/full request.
UploadSucceeds ==
  /\ \E r \in requests :
       /\ r.kind = "upload"
       /\ navData' = r.data
       /\ requests' = (requests \ {r}) \cup {[r EXCEPT !.kind = "analysis"]}
  /\ status' = "processing"
  /\ error' = Null
  /\ UNCHANGED <<text, validation, origin, pc, upload, response,
                 isGeminiAvailable, analysis, dropped>>

\* The upload fails (response not ok, success false or fetch rejected):
\* onError, that is handleError.
UploadFails ==
  /\ \E r \in requests :
       /\ r.kind = "upload"
       /\ requests' = requests \ {r}
  /\ error' = [message |-> "Upload failed"]
  /\ status' = "error"
  /\ UNCHANGED <<text, navData, validation, origin, pc, upload, response,
                 isGeminiAvailable, analysis, dropped>>

\* handleFileUpload after its await: the analysis answered 200.
AnalysisSucceeds ==
  /\ \E r \in requests :
       /\ r.kind = "analysis"
       /\ analysis' = FullAnalysisResponseFor(r.data)
       /\ requests' = requests \ {r}
  /\ status' = "completed"
  /\ UNCHANGED <<text, navData, validation, origin, pc, upload, response,
                 isGeminiAvailable, error, dropped>>

\* handleFileUpload, catch block: the analysis answered with an error status
\* or the request was rejected.
AnalysisFails ==
  /\ \E r \in requests :
       /\ r.kind = "analysis"
       /\ requests' = requests \ {r}
  /\ error' = [message |-> "Analysis failed"]
  /\ status' = "error"
  /\ UNCHANGED <<text, navData, validation, origin, pc, upload, response,
                 isGeminiAvailable, analysis, dropped>>

\* resetAnalysis, bound to the buttons shown when status is "completed" or
\* "error". Nothing is cancelled: the requests in flight stay in flight, and
\* are marked as started before the reset.
resetAnalysis ==
  /\ status \in {"completed", "error"}
  /\ status' = "idle"
  /\ navData' = Null
  /\ analysis' = Null
  /\ error' = Null
  /\ requests' = {[r EXCEPT !.beforeReset = TRUE] : r \in requests}
  /\ UNCHANGED <<text, validation, origin, pc, upload, response,
                 isGeminiAvailable, dropped>>

NextApp ==
  \/ DropFile
  \/ UploadSucceeds
  \/ UploadFails
  \/ AnalysisSucceeds
  \/ AnalysisFails
  \/ resetAnalysis

SpecApp == InitApp /\ [][NextApp]_vars

\* C24: whenever status is "completed", navData and analysis are both
\* non-null and analysis is the answer to the /api/analysis/full request that
\* was sent for the current navData.
C24_CompletedHasMatchingAnalysis ==
  status = "completed" =>
    /\ navData # Null
    /\ analysis # Null
    /\ analysis.originalData = navData

\* A request started before a reset settles in this step.
SettlesFromBeforeReset ==
  \E r \in requests :
    /\ r.beforeReset
    /\ \A q \in requests' : q.id # r.id \/ q.kind # r.kind

\* C25: no completion or failure of an upload or analysis request started
\* before resetAnalysis changes status, navData, analysis or error.
C25_ResetIgnoresEarlierRequests ==
  [][SettlesFromBeforeReset => UNCHANGED <<status, navData, analysis, error>>]_vars

\* C26: error is non-null exactly when status is "error".
C26_ErrorIffErrorStatus ==
  (error # Null) <=> (status = "error")

====
